---- MODULE Spec2Model ----
(***************************************************************************)
(* A model of the section-management subsystem of steve (sections.py):     *)
(* the Sections orchestrator, its Section / SectionControls objects, the   *)
(* SectionRenderer and the pixmaps held by SectionsView.                   *)
(*                                                                         *)
(* Units.  A QDoubleSpinBox holds a value with two decimals, so every      *)
(* value held by a spin box (x, y, angle) is an integer number of          *)
(* hundredths ("centi": 150 is 1.50).  A float handed to the program from  *)
(* outside (a clicked point, a parsed file field) is an integer number of  *)
(* thousandths ("milli"), which the spin box rounds and clamps.            *)
(***************************************************************************)
EXTENDS Integers, Sequences, FiniteSets, TLC

VARIABLES
    sections,           \* Sections.sections: the list of Section objects
    active_section,     \* Sections.active_section: 0 for False, else the list
                        \* position (1-based) of the Section object referred to
    background_pixmap,  \* SectionsView.background_pixmap
    foreground_pixmap,  \* SectionsView.foreground_pixmap
    raised,             \* the exception the last handler ended with, or "none"
    failed_renders,     \* list positions whose renderSectionNumpy returned
                        \* False in the last run of updateBackgroundPixmap
    last_op,            \* the handler that ran last
    last_arg,           \* its integer argument (diff, which_section), else 0
    nudges,             \* number of W/A/S/D/Q/E key presses handled so far
    file,               \* the lines written by the last saveToMosaicFile
    file_pos,           \* next line of file the loader will read (0: not loading)
    saved,              \* the (x, y, angle) of the sections when file was written
    number_x,           \* Sections.number_x: columns of the picture grid
    number_y,           \* Sections.number_y: rows of the picture grid
    emitted,            \* the signals the last handler emitted, in order
    ellipse_rect,       \* mosaicView's flag: ellipses and rectangles are drawn
    captured,           \* the values ellipse_rect had at the grabWidget calls
                        \* of the last handler
    visible,            \* SceneEllipseItem.visible
    returned,           \* what the last handler returned: "None", "True", "False"
    view_emitted,       \* the signals SectionsView emitted in the last handler
    viewer,             \* the camera viewer object of cameraViewers.py
    trail               \* the nudge keys handled so far that were recorded, in
                        \* order, each with the (x, y, angle) the active
                        \* section had before it

vars == <<sections, active_section, background_pixmap, foreground_pixmap,
          raised, failed_renders, last_op, last_arg, nudges, file, file_pos, saved,
          number_x, number_y, emitted, ellipse_rect, captured, visible,
          returned, view_emitted, trail, viewer>>

(***************************************************************************)
(* Bounds of the model.                                                    *)
(***************************************************************************)
MaxSections == 3
MaxNudges == 1
MaxRenderFailures == 1
MaxDelta == 4
MaxFileSections == 2

(***************************************************************************)
(* Program constants (centi units where they are spin box values).         *)
(***************************************************************************)
AngleMinimum == -18000
AngleMaximum == 18000
PosMinimum == -100000000
PosMaximum == 100000000
angle_step == 100
PositionNudge == 50
ZDeselected == 999
ZSelected == 1999
InitialNumberX == 5
InitialNumberY == 3

Abs(n) == IF n < 0 THEN -n ELSE n
Min2(a, b) == IF a < b THEN a ELSE b
Max2(a, b) == IF a > b THEN a ELSE b

(***************************************************************************)
(* SectionSpinBox: QDoubleSpinBox.setValue rounds the value to two         *)
(* decimals and clamps it to [minimum, maximum].                           *)
(***************************************************************************)
RoundToCenti(milli) ==
    IF milli >= 0 THEN (milli + 5) \div 10 ELSE -((5 - milli) \div 10)

\* Mutant: the spin box without its range.
SpinBoxSetValueUnclamped(minimum, maximum, milli) == RoundToCenti(milli)

SpinBoxSetValue(minimum, maximum, milli) ==
    Max2(minimum, Min2(maximum, RoundToCenti(milli)))

(***************************************************************************)
(* Section.__init__ / SectionControls.__init__: a new Section object.  The *)
(* marker is built with the selected pen and z value 999; the control row  *)
(* starts unselected and unchecked.                                        *)
(***************************************************************************)
NewSection(section_number, x_pos, y_pos, angle) ==
    [section_number |-> section_number,
     x_spin_box     |-> SpinBoxSetValue(PosMinimum, PosMaximum, x_pos),
     y_spin_box     |-> SpinBoxSetValue(PosMinimum, PosMaximum, y_pos),
     angle_spin_box |-> SpinBoxSetValue(AngleMinimum, AngleMaximum, angle),
     check_box      |-> FALSE,
     selected       |-> FALSE,
     pen            |-> "selected_pen",
     z              |-> ZDeselected]

\* Section.select: marker raised and drawn with the selected pen, row selected.
SectionSelect(s) ==
    [s EXCEPT !.z = ZSelected, !.pen = "selected_pen", !.selected = TRUE]

\* Section.deselect
SectionDeselect(s) ==
    [s EXCEPT !.z = ZDeselected, !.pen = "deselected_pen", !.selected = FALSE]

\* Mutant: the angle is left to the spin box, which clamps it.
incrementAngleClamped(cur, direction) ==
    IF direction > 0
    THEN SpinBoxSetValue(AngleMinimum, AngleMaximum, 10 * (cur + angle_step))
    ELSE SpinBoxSetValue(AngleMinimum, AngleMaximum, 10 * (cur - angle_step))

(***************************************************************************)
(* SectionControls.incrementAngle: one angle_step up or down, wrapping at  *)
(* the spin box's maximum / minimum.  The result is the new spin box value.*)
(***************************************************************************)
incrementAngle(cur, direction) ==
    IF direction > 0
    THEN LET cur_angle == cur + angle_step
         IN IF cur_angle > AngleMaximum
            THEN SpinBoxSetValue(AngleMinimum, AngleMaximum,
                                 10 * (AngleMinimum + (cur_angle - AngleMaximum)))
            ELSE SpinBoxSetValue(AngleMinimum, AngleMaximum, 10 * cur_angle)
    ELSE LET cur_angle == cur - angle_step
         IN IF cur_angle < AngleMinimum
            THEN SpinBoxSetValue(AngleMinimum, AngleMaximum,
                                 10 * (AngleMaximum - (AngleMinimum - cur_angle)))
            ELSE SpinBoxSetValue(AngleMinimum, AngleMaximum, 10 * cur_angle)

\* Mutant: the step is taken the other way.
incrementPosReversed(cur, direction) ==
    SpinBoxSetValue(PosMinimum, PosMaximum, 10 * (cur - direction))

\* SectionControls.incrementX / incrementY: direction is in centi (+-50).
incrementPos(cur, direction) ==
    SpinBoxSetValue(PosMinimum, PosMaximum, 10 * (cur + direction))

(***************************************************************************)
(* SectionRenderer.  The scene's content is outside the program; a render  *)
(* centred at (x, y) and rotated by angle is a frame of FramePixels pixel  *)
(* values that depend on all three.  renderSectionPixmap always returns a  *)
(* pixmap; renderSectionNumpy returns the frame or, when the image has no  *)
(* bits, False.                                                            *)
(***************************************************************************)
FramePixels == 2

SceneSample(x, y, angle, k) ==
    ((x \div 10) * 7 + (y \div 10) * 11 + (angle \div 100) * 13 + 29 * k) % 256

renderSectionPixmap(x, y, angle) ==
    [k \in 1..FramePixels |-> SceneSample(x, y, angle, k)]

renderSectionNumpy(x, y, angle, fails) ==
    IF fails THEN [is_array |-> FALSE, data |-> <<>>]
    ELSE [is_array |-> TRUE, data |-> renderSectionPixmap(x, y, angle)]

\* Values a pixmap attribute of SectionsView can hold.
NonePixmap == [kind |-> "None", data |-> <<>>]
FalsePixmap == [kind |-> "False", data |-> <<>>]
Pixmap(frame) == [kind |-> "pixmap", data |-> frame]

(***************************************************************************)
(* The state of a Sections object (with its view), as a record that the    *)
(* methods below transform.  raised # "none": an exception ended the       *)
(* handler at that point.                                                  *)
(***************************************************************************)
Self ==
    [sections |-> sections, active_section |-> active_section,
     background_pixmap |-> background_pixmap,
     foreground_pixmap |-> foreground_pixmap,
     raised |-> "none", failed_renders |-> failed_renders,
     number_x |-> number_x, number_y |-> number_y, emitted |-> <<>>,
     ellipse_rect |-> ellipse_rect, captured |-> {}, visible |-> visible,
     returned |-> "None", view_emitted |-> <<>>]

\* Sections.__init__ / SectionsView.__init__, in a process that draws the
\* scene's ellipses and rectangles (rect) or not.
NewSectionsWith(rect) ==
    [sections |-> <<>>, active_section |-> 0,
     background_pixmap |-> NonePixmap, foreground_pixmap |-> NonePixmap,
     raised |-> "none", failed_renders |-> {},
     number_x |-> InitialNumberX, number_y |-> InitialNumberY, emitted |-> <<>>,
     ellipse_rect |-> rect, captured |-> {}, visible |-> TRUE,
     returned |-> "None", view_emitted |-> <<>>]

NewSections == NewSectionsWith(TRUE)

(***************************************************************************)
(* What a render does to the scene-wide flag.  renderSectionPixmap calls   *)
(* mosaicView.displayEllipseRect(False), grabs the viewport and calls      *)
(* mosaicView.displayEllipseRect(True).                                    *)
(***************************************************************************)
displayEllipseRect(st, should_display) ==
    [st EXCEPT !.ellipse_rect = should_display]

\* QPixmap.grabWidget: the capture sees the flag as it is now.
grabWidget(st) == [st EXCEPT !.captured = @ \cup {st.ellipse_rect}]

\* SectionRenderer.renderSectionPixmap, as a change of the state.
renderSectionPixmapCall(st) ==
    displayEllipseRect(grabWidget(displayEllipseRect(st, FALSE)), TRUE)

\* Python list indexing: the 1-based position of index i in a list of n
\* elements (negative indices count from the end), 0 for IndexError.
PyIndex(n, i) ==
    IF i >= 0 /\ i < n THEN i + 1
    ELSE IF i < 0 /\ -i <= n THEN n + i + 1
    ELSE 0

\* Mutant: the section that was active stays selected.
handleActiveSectionUpdateNoDeselect(st, which_section) ==
    LET pos == PyIndex(Len(st.sections), which_section)
    IN IF st.active_section # 0
          /\ st.sections[st.active_section].section_number = which_section
       THEN st
       ELSE IF pos = 0 THEN [st EXCEPT !.raised = "IndexError"]
       ELSE [st EXCEPT !.active_section = pos,
                       !.sections[pos] = SectionSelect(@)]

\* Sections.handleActiveSectionUpdate
handleActiveSectionUpdate(st, which_section) ==
    LET pos == PyIndex(Len(st.sections), which_section)
        activate(s) ==
            IF pos = 0 THEN [s EXCEPT !.raised = "IndexError"]
            ELSE [s EXCEPT !.active_section = pos,
                           !.sections[pos] = SectionSelect(@)]
    IN IF st.active_section # 0
       THEN IF st.sections[st.active_section].section_number # which_section
            THEN activate([st EXCEPT !.sections[st.active_section] =
                                          SectionDeselect(@)])
            ELSE st
       ELSE activate(st)

\* Mutant: the new section is always made the active one.
addSectionAlwaysActive(st, x_um, y_um, angle) ==
    LET a_section == NewSection(Len(st.sections), x_um, y_um, angle)
        s1 == [st EXCEPT !.sections = Append(@, a_section)]
    IN handleActiveSectionUpdate(s1, Len(st.sections))

\* Sections.addSection
addSection(st, x_um, y_um, angle) ==
    LET a_section == NewSection(Len(st.sections), x_um, y_um, angle)
        s1 == [st EXCEPT !.sections = Append(@, a_section)]
    IN IF s1.active_section = 0
       THEN handleActiveSectionUpdate(s1, 0)
       ELSE s1

\* Mutant: the next section number is not reduced modulo the count.
incrementActiveSectionNoModulo(st, diff) ==
    IF st.active_section # 0
    THEN handleActiveSectionUpdate(st,
            st.sections[st.active_section].section_number + diff)
    ELSE st

\* Sections.incrementActiveSection
incrementActiveSection(st, diff) ==
    IF st.active_section # 0
    THEN LET next_section ==
                (st.sections[st.active_section].section_number + diff)
                    % Len(st.sections)
         IN handleActiveSectionUpdate(st, next_section)
    ELSE st

\* Mutant: the remaining sections keep their numbers.
RenumberSkipped(secs) == secs

\* The renumbering loop of removeActiveSection.
Renumber(secs) ==
    [i \in 1..Len(secs) |-> [secs[i] EXCEPT !.section_number = i - 1]]

\* del a_list[pos] (pos is a 1-based position).
DelItem(secs, pos) ==
    [i \in 1..(Len(secs) - 1) |-> IF i < pos THEN secs[i] ELSE secs[i + 1]]

\* Mutant: the section that took the place of the removed one is activated.
removeActiveSectionSameIndex(st) ==
    IF st.active_section = 0 THEN [st EXCEPT !.raised = "AttributeError"]
    ELSE LET which_section == st.sections[st.active_section].section_number
             pos == PyIndex(Len(st.sections), which_section)
         IN IF pos = 0 THEN [st EXCEPT !.raised = "IndexError"]
            ELSE LET s1 == [st EXCEPT
                                !.sections = Renumber(DelItem(@, pos)),
                                !.active_section = 0]
                 IN IF Len(s1.sections) > 0
                    THEN handleActiveSectionUpdate(s1,
                            IF which_section < Len(s1.sections)
                            THEN which_section ELSE which_section - 1)
                    ELSE s1

\* Mutant: no section is activated after the removal.
removeActiveSectionNoReactivate(st) ==
    IF st.active_section = 0 THEN [st EXCEPT !.raised = "AttributeError"]
    ELSE [st EXCEPT !.sections = Renumber(DelItem(@, st.active_section)),
                    !.active_section = 0]

\* Sections.removeActiveSection
removeActiveSection(st) ==
    IF st.active_section = 0 THEN [st EXCEPT !.raised = "AttributeError"]
    ELSE LET which_section == st.sections[st.active_section].section_number
             pos == PyIndex(Len(st.sections), which_section)
         IN IF pos = 0 THEN [st EXCEPT !.raised = "IndexError"]
            ELSE LET s1 == [st EXCEPT
                                !.sections = Renumber(DelItem(@, pos)),
                                !.active_section = 0]
                 IN IF Len(s1.sections) > 0
                    THEN IF which_section > 0
                         THEN handleActiveSectionUpdate(s1, which_section - 1)
                         ELSE handleActiveSectionUpdate(s1, 0)
                    ELSE s1

(***************************************************************************)
(* Sections.updateBackgroundPixmap.  failed is the set of list positions   *)
(* whose renderSectionNumpy returns False in this run.  The accumulator    *)
(* is numpy_background (False until the first array is stored) and counts. *)
(***************************************************************************)
\* Mutant: a render added to the sum is not counted.
AccumulateNoCount(acc, temp) ==
    IF acc.is_array
    THEN [acc EXCEPT
            !.data = [k \in DOMAIN acc.data |->
                        acc.data[k] + (IF temp.is_array THEN temp.data[k] ELSE 0)]]
    ELSE IF temp.is_array
    THEN [is_array |-> TRUE, data |-> temp.data, counts |-> acc.counts + 1]
    ELSE acc

\* One pass of the loop body for a checked section whose render is temp.
\* numpy_background += False adds 0 to every pixel.
Accumulate(acc, temp) ==
    IF acc.is_array
    THEN [acc EXCEPT
            !.data = [k \in DOMAIN acc.data |->
                        acc.data[k] + (IF temp.is_array THEN temp.data[k] ELSE 0)],
            !.counts = @ + 1]
    ELSE IF temp.is_array
    THEN [is_array |-> TRUE, data |-> temp.data, counts |-> acc.counts + 1]
    ELSE acc

RECURSIVE BackgroundLoop(_, _, _, _)
BackgroundLoop(secs, failed, i, acc) ==
    IF i > Len(secs) THEN acc
    ELSE IF ~secs[i].check_box THEN BackgroundLoop(secs, failed, i + 1, acc)
    ELSE BackgroundLoop(secs, failed, i + 1,
            Accumulate(acc, renderSectionNumpy(secs[i].x_spin_box,
                                               secs[i].y_spin_box,
                                               secs[i].angle_spin_box,
                                               i \in failed)))

\* numpy_background / counts, then astype(numpy.uint8).
ToPixmap(acc) ==
    IF acc.is_array
    THEN Pixmap([k \in DOMAIN acc.data |-> (acc.data[k] \div acc.counts) % 256])
    ELSE FalsePixmap

updateBackgroundPixmap(st, failed) ==
    IF Len(st.sections) = 0 THEN [st EXCEPT !.failed_renders = {}]
    ELSE LET acc == BackgroundLoop(st.sections, failed, 1,
                        [is_array |-> FALSE, data |-> <<>>, counts |-> 0])
             s1 == IF \E i \in 1..Len(st.sections) : st.sections[i].check_box
                   THEN renderSectionPixmapCall(st) ELSE st
         IN [s1 EXCEPT
                !.background_pixmap = ToPixmap(acc),
                !.failed_renders = {i \in failed : i <= Len(st.sections)
                                                    /\ st.sections[i].check_box}]

\* Sections.updateForegroundPixmap
updateForegroundPixmap(st) ==
    IF st.active_section = 0 THEN st
    ELSE LET a == st.sections[st.active_section]
         IN [renderSectionPixmapCall(st) EXCEPT !.foreground_pixmap =
                Pixmap(renderSectionPixmap(a.x_spin_box, a.y_spin_box,
                                           a.angle_spin_box))]

\* Sections.viewUpdate
viewUpdate(st, failed) ==
    updateForegroundPixmap(updateBackgroundPixmap(st, failed))

\* Mutant: the background is never recomputed after an edit.
handleSectionUpdateForegroundOnly(st, failed) ==
    IF st.active_section = 0 THEN [st EXCEPT !.raised = "AttributeError"]
    ELSE updateForegroundPixmap(st)

\* Sections.handleSectionUpdate
handleSectionUpdate(st, failed) ==
    IF st.active_section = 0 THEN [st EXCEPT !.raised = "AttributeError"]
    ELSE IF st.sections[st.active_section].check_box
    THEN updateForegroundPixmap(updateBackgroundPixmap(st, failed))
    ELSE updateForegroundPixmap(st)

\* Sections.setSceneItemsVisible
setSceneItemsVisible(st, a_visible, failed) ==
    handleSectionUpdate([st EXCEPT !.visible = a_visible], failed)

\* Sections.saveSectionsNumpy: every section is rendered and the array (or
\* False) is saved to a file named after its position.
saveSectionsNumpy(st) ==
    IF Len(st.sections) > 0 THEN renderSectionPixmapCall(st) ELSE st

\* Sections.gridChange
gridChange(st, xnum, ynum) ==
    [st EXCEPT !.number_x = xnum, !.number_y = ynum]

\* Section.getLocation: the point held by the x and y spin boxes.
getLocation(s) == [kind |-> "location", a |-> s.x_spin_box, b |-> s.y_spin_box]

\* mosaicView.createSpiral: number offset points along a spiral.
createSpiral(number) ==
    [k \in 1..number |-> [kind |-> "spiral", a |-> k, b |-> number]]

\* mosaicView.createGrid: the nx * ny offset points of a grid, row by row.
createGrid(nx, ny) ==
    [k \in 1..(nx * ny) |->
        [kind |-> "grid", a |-> ((k - 1) % nx) + 1, b |-> ((k - 1) \div nx) + 1]]

\* Mutant: the offsets are added once, after the last section, instead of
\* after every section.
RECURSIVE PictureLoopOffsetsOnce(_, _, _, _, _)
PictureLoopOffsetsOnce(secs, number_pictures, nx, ny, i) ==
    IF i > Len(secs) THEN <<>>
    ELSE <<getLocation(secs[i])>>
            \o (IF i < Len(secs) THEN <<>>
                ELSE IF number_pictures > 1 THEN createSpiral(number_pictures)
                ELSE IF number_pictures = -1 THEN createGrid(nx, ny)
                ELSE <<>>)
            \o PictureLoopOffsetsOnce(secs, number_pictures, nx, ny, i + 1)

RECURSIVE PictureLoop(_, _, _, _, _)
PictureLoop(secs, number_pictures, nx, ny, i) ==
    IF i > Len(secs) THEN <<>>
    ELSE <<getLocation(secs[i])>>
            \o (IF number_pictures > 1 THEN createSpiral(number_pictures)
                ELSE IF number_pictures = -1 THEN createGrid(nx, ny)
                ELSE <<>>)
            \o PictureLoop(secs, number_pictures, nx, ny, i + 1)

\* Sections.handlePictures
handlePictures(st, number_pictures) ==
    LET picture_list == PictureLoop(st.sections, number_pictures,
                                    st.number_x, st.number_y, 1)
    IN IF Len(picture_list) > 0
       THEN [st EXCEPT !.emitted =
                Append(@, [signal |-> "takePictures", list |-> picture_list])]
       ELSE st

\* Mutant: the list is emitted even when it is empty.
handlePositionsAlways(st) ==
    [st EXCEPT !.emitted =
        Append(@, [signal |-> "addPositions",
                   list |-> [i \in 1..Len(st.sections) |->
                                getLocation(st.sections[i])]])]

\* Sections.handlePositions
handlePositions(st) ==
    LET position_list == [i \in 1..Len(st.sections) |-> getLocation(st.sections[i])]
    IN IF Len(position_list) > 0
       THEN [st EXCEPT !.emitted =
                Append(@, [signal |-> "addPositions", list |-> position_list])]
       ELSE st

(***************************************************************************)
(* A spin box of the active section is set to value (centi).  When the     *)
(* value changes, valueChanged runs SectionControls.handleValueChange,     *)
(* Section.handleSectionChanged and Sections.handleSectionUpdate.          *)
(***************************************************************************)
SetActiveField(st, field, value, failed) ==
    IF st.sections[st.active_section][field] = value THEN st
    ELSE handleSectionUpdate(
            [st EXCEPT !.sections[st.active_section][field] = value], failed)

Keys == {"Up", "Down", "W", "S", "A", "D", "Q", "E", "P", "Delete", "U", "Other"}
NudgeKeys == {"W", "S", "A", "D", "Q", "E"}

\* Sections.handleKeyEvent
handleKeyEvent(st, which_key, failed) ==
    LET a == st.sections[st.active_section]
        noActive == [st EXCEPT !.raised = "AttributeError"]
    IN CASE which_key = "Up" -> incrementActiveSection(st, -1)
         [] which_key = "Down" -> incrementActiveSection(st, 1)
         [] which_key = "W" ->
              IF st.active_section = 0 THEN noActive
              ELSE SetActiveField(st, "y_spin_box",
                        incrementPos(a.y_spin_box, -PositionNudge), failed)
         [] which_key = "S" ->
              IF st.active_section = 0 THEN noActive
              ELSE SetActiveField(st, "y_spin_box",
                        incrementPos(a.y_spin_box, PositionNudge), failed)
         [] which_key = "A" ->
              IF st.active_section = 0 THEN noActive
              ELSE SetActiveField(st, "x_spin_box",
                        incrementPos(a.x_spin_box, -PositionNudge), failed)
         [] which_key = "D" ->
              IF st.active_section = 0 THEN noActive
              ELSE SetActiveField(st, "x_spin_box",
                        incrementPos(a.x_spin_box, PositionNudge), failed)
         [] which_key = "Q" ->
              IF st.active_section = 0 THEN noActive
              ELSE SetActiveField(st, "angle_spin_box",
                        incrementAngle(a.angle_spin_box, -1), failed)
         [] which_key = "E" ->
              IF st.active_section = 0 THEN noActive
              ELSE SetActiveField(st, "angle_spin_box",
                        incrementAngle(a.angle_spin_box, 1), failed)
         [] which_key = "P" -> saveSectionsNumpy(st)
         [] which_key = "Delete" ->
              IF st.active_section # 0 THEN removeActiveSection(st) ELSE st
         [] which_key = "U" -> viewUpdate(st, failed)
         [] OTHER -> st

(***************************************************************************)
(* SectionsView.keyPressEvent: the signal the view emits for a key, a      *)
(* pictureEvent with its count or a keyEvent with the key.                 *)
(***************************************************************************)
\* Mutant: every key is forwarded as a key code.
keyPressEventForwardAll(key) ==
    [signal |-> "keyEvent", count |-> 0, key |-> key]

keyPressEvent(key) ==
    IF key = "Space" THEN [signal |-> "pictureEvent", count |-> 1, key |-> ""]
    ELSE IF key = "3" THEN [signal |-> "pictureEvent", count |-> 3, key |-> ""]
    ELSE IF key = "5" THEN [signal |-> "pictureEvent", count |-> 5, key |-> ""]
    ELSE IF key = "G" THEN [signal |-> "pictureEvent", count |-> -1, key |-> ""]
    ELSE [signal |-> "keyEvent", count |-> 0, key |-> key]

(***************************************************************************)
(* The mosaic file.  A string is a sequence of one-character strings, so   *)
(* that formatting and parsing are the conversions the code performs.      *)
(***************************************************************************)
DigitChars == <<"0", "1", "2", "3", "4", "5", "6", "7", "8", "9">>
Whitespace == {" ", "\t", "\r", "\n"}
SectionTag == <<"s", "e", "c", "t", "i", "o", "n">>

RECURSIVE NatStr(_)
NatStr(n) ==
    IF n < 10 THEN <<DigitChars[n + 1]>>
    ELSE Append(NatStr(n \div 10), DigitChars[(n % 10) + 1])

\* str() of an int.
IntStr(n) == (IF n < 0 THEN <<"-">> ELSE <<>>) \o NatStr(Abs(n))

\* str() of a float that is a spin box value (centi): the integer part, a
\* point, and the fraction without trailing zeros but with one digit at least.
FloatStr(c) ==
    LET a == Abs(c)
        fp == a % 100
        frac == IF fp % 10 = 0 THEN <<DigitChars[(fp \div 10) + 1]>>
                ELSE <<DigitChars[(fp \div 10) + 1], DigitChars[(fp % 10) + 1]>>
    IN (IF c < 0 THEN <<"-">> ELSE <<>>) \o NatStr(a \div 100) \o <<".">> \o frac

\* sep.join(strs)
RECURSIVE Join(_, _)
Join(strs, sep) ==
    IF Len(strs) = 0 THEN <<>>
    ELSE IF Len(strs) = 1 THEN strs[1]
    ELSE strs[1] \o <<sep>> \o Join(Tail(strs), sep)

\* str.split(sep)
RECURSIVE SplitFrom(_, _, _, _)
SplitFrom(str, sep, i, cur) ==
    IF i > Len(str) THEN <<cur>>
    ELSE IF str[i] = sep THEN <<cur>> \o SplitFrom(str, sep, i + 1, <<>>)
    ELSE SplitFrom(str, sep, i + 1, Append(cur, str[i]))

Split(str, sep) == SplitFrom(str, sep, 1, <<>>)

\* Mutant: the section number is not written.
SectionLineNoNumber(s) ==
    SectionTag \o <<",">>
        \o Join(<<FloatStr(s.x_spin_box),
                  FloatStr(s.y_spin_box), FloatStr(s.angle_spin_box)>>, ",")
        \o <<"\r", "\n">>

\* Section.saveToMosaicFile: the line written for section s.
SectionLine(s) ==
    SectionTag \o <<",">>
        \o Join(<<IntStr(s.section_number), FloatStr(s.x_spin_box),
                  FloatStr(s.y_spin_box), FloatStr(s.angle_spin_box)>>, ",")
        \o <<"\r", "\n">>

\* Mutant: the sections are written last first.
saveToMosaicFileReversed(st) ==
    [i \in 1..Len(st.sections) |->
        SectionLine(st.sections[Len(st.sections) + 1 - i])]

\* Sections.saveToMosaicFile: the lines written, in list order.
saveToMosaicFile(st) ==
    [i \in 1..Len(st.sections) |-> SectionLine(st.sections[i])]

(***************************************************************************)
(* float(str): surrounding whitespace is ignored; then an optional sign,   *)
(* digits with at most one point, and one digit at least.  The result is   *)
(* in milli (the strings of the model have at most three decimals);        *)
(* anything else raises ValueError.  Exponents, "inf" and "nan" are not    *)
(* among the strings of the model.                                         *)
(***************************************************************************)
RECURSIVE Strip(_)
Strip(str) ==
    IF Len(str) = 0 THEN str
    ELSE IF str[1] \in Whitespace THEN Strip(Tail(str))
    ELSE IF str[Len(str)] \in Whitespace THEN Strip(SubSeq(str, 1, Len(str) - 1))
    ELSE str

DigitValue(ch) == CHOOSE d \in 0..9 : DigitChars[d + 1] = ch

RECURSIVE DigitsValue(_)
DigitsValue(str) ==
    IF Len(str) = 0 THEN 0
    ELSE 10 * DigitsValue(SubSeq(str, 1, Len(str) - 1)) + DigitValue(str[Len(str)])

IsDigits(str) == \A i \in 1..Len(str) : \E d \in 1..10 : DigitChars[d] = str[i]

ParseFloat(str) ==
    LET s0 == Strip(str)
        neg == Len(s0) > 0 /\ s0[1] = "-"
        body == IF Len(s0) > 0 /\ s0[1] \in {"-", "+"} THEN Tail(s0) ELSE s0
        parts == Split(body, ".")
        ip == parts[1]
        fp == IF Len(parts) = 2 THEN parts[2] ELSE <<>>
        fp3 == SubSeq(fp \o <<"0", "0", "0">>, 1, 3)
        ok == /\ Len(parts) <= 2
              /\ IsDigits(ip) /\ IsDigits(fp)
              /\ Len(ip) + Len(fp) > 0
        mag == 1000 * DigitsValue(ip) + DigitsValue(fp3)
    IN IF ok THEN [ok |-> TRUE, value |-> IF neg THEN -mag ELSE mag]
       ELSE [ok |-> FALSE, value |-> 0]

\* Mutant: the loader takes x, y and the angle from the three fields that
\* follow the tag.
loadFromMosaicFileDataShifted(st, data) ==
    LET x == ParseFloat(data[2])
        y == ParseFloat(data[3])
        angle == ParseFloat(data[4])
    IN IF Len(data) >= 4 /\ data[1] = SectionTag /\ x.ok /\ y.ok /\ angle.ok
       THEN [state |-> addSection(st, x.value, y.value, angle.value),
             returned |-> TRUE]
       ELSE [state |-> [st EXCEPT !.raised = "ValueError"], returned |-> FALSE]

\* Mutant: a field that is missing or not a number is read as 0.
loadFromMosaicFileDataLenient(st, data) ==
    LET field(k) == IF Len(data) >= k /\ ParseFloat(data[k]).ok
                    THEN ParseFloat(data[k]).value ELSE 0
    IN IF Len(data) >= 1 /\ data[1] = SectionTag
       THEN [state |-> [addSection(st, field(3), field(4), field(5))
                            EXCEPT !.returned = "True"],
             returned |-> TRUE]
       ELSE [state |-> [st EXCEPT !.returned = "False"], returned |-> FALSE]

\* Mutant: the tag is not looked at.
loadFromMosaicFileDataAnyTag(st, data) ==
    LET x == ParseFloat(data[3])
        y == ParseFloat(data[4])
        angle == ParseFloat(data[5])
    IN IF Len(data) >= 5 /\ x.ok /\ y.ok /\ angle.ok
       THEN [state |-> [addSection(st, x.value, y.value, angle.value)
                            EXCEPT !.returned = "True"],
             returned |-> TRUE]
       ELSE [state |-> [st EXCEPT !.raised = "ValueError"], returned |-> FALSE]

(***************************************************************************)
(* Sections.loadFromMosaicFileData.  data is the list of the line's        *)
(* fields.  The result is the new state and what the call returned.        *)
(***************************************************************************)
loadFromMosaicFileData(st, data) ==
    LET fail(e) == [state |-> [st EXCEPT !.raised = e], returned |-> FALSE]
        return(s, value) ==
            [state |-> [s EXCEPT !.returned = IF value THEN "True" ELSE "False"],
             returned |-> value]
        x == ParseFloat(data[3])
        y == ParseFloat(data[4])
        angle == ParseFloat(data[5])
    IN IF Len(data) < 1 THEN fail("IndexError")
       ELSE IF data[1] = SectionTag
       THEN IF Len(data) < 3 THEN fail("IndexError")
            ELSE IF ~x.ok THEN fail("ValueError")
            ELSE IF Len(data) < 4 THEN fail("IndexError")
            ELSE IF ~y.ok THEN fail("ValueError")
            ELSE IF Len(data) < 5 THEN fail("IndexError")
            ELSE IF ~angle.ok THEN fail("ValueError")
            ELSE return(addSection(st, x.value, y.value, angle.value), TRUE)
       ELSE return(st, FALSE)

(***************************************************************************)
(* The events of the running program.  Each action is one handler run to   *)
(* completion: handlers are not reentrant.                                 *)
(***************************************************************************)
\* Inputs (milli): clicked points and angles handed to addSection.
PointInputs == {<<1254, -496>>}
AngleInputs == {0}
BackgroundPoints == {<<-2000, 30>>}

\* The render failures one run of updateBackgroundPixmap can meet: any
\* renders of checked sections, at most MaxRenderFailures of them.
FailureSets(secs) ==
    {f \in SUBSET {i \in 1..Len(secs) : secs[i].check_box} :
        Cardinality(f) <= MaxRenderFailures}

Apply(st, op, arg) ==
    /\ sections' = st.sections
    /\ active_section' = st.active_section
    /\ background_pixmap' = st.background_pixmap
    /\ foreground_pixmap' = st.foreground_pixmap
    /\ raised' = st.raised
    /\ failed_renders' = st.failed_renders
    /\ number_x' = st.number_x
    /\ number_y' = st.number_y
    /\ emitted' = st.emitted
    /\ ellipse_rect' = st.ellipse_rect
    /\ captured' = st.captured
    /\ visible' = st.visible
    /\ returned' = st.returned
    /\ view_emitted' = st.view_emitted
    /\ viewer' = viewer
    /\ last_op' = op
    /\ last_arg' = arg

\* The program after Sections.__init__, with no file written or read.
\* cameraViewers.py: no viewer object has been constructed yet.
NoViewer ==
    [class |-> "none", camera_name |-> "", frame_viewer |-> "None",
     params_viewer |-> "None", calls |-> <<>>, raised |-> "none",
     op |-> "none", arg |-> "", handled |-> 0]

Started(st) ==
    /\ sections = st.sections
    /\ active_section = st.active_section
    /\ background_pixmap = st.background_pixmap
    /\ foreground_pixmap = st.foreground_pixmap
    /\ raised = "none"
    /\ failed_renders = {}
    /\ number_x = st.number_x
    /\ number_y = st.number_y
    /\ emitted = <<>>
    /\ ellipse_rect = st.ellipse_rect
    /\ captured = {}
    /\ visible = st.visible
    /\ returned = "None"
    /\ view_emitted = <<>>
    /\ viewer = NoViewer
    /\ last_op = "init"
    /\ last_arg = 0
    /\ nudges = 0
    /\ trail = <<>>
    /\ file = <<>>
    /\ file_pos = 0
    /\ saved = <<>>

Init == Started(NewSections)

\* steve adds a section at a clicked point.
AddSectionFrom(points, angles) ==
    /\ Len(sections) < MaxSections
    /\ \E p \in points, a \in angles :
         Apply(addSection(Self, p[1], p[2], a), "addSection", 0)
    /\ UNCHANGED <<nudges, trail, file, file_pos, saved>>

AddSection == AddSectionFrom(PointInputs, AngleInputs)

\* A control row is clicked or one of its spin boxes gets the focus:
\* SectionControls.handleSelected, Section.handleSelection (which emits the
\* section's number), Sections.handleActiveSectionUpdate.
SectionSelected ==
    /\ \E i \in 1..Len(sections) :
         Apply(handleActiveSectionUpdate(Self, sections[i].section_number),
               "handleActiveSectionUpdate", sections[i].section_number)
    /\ UNCHANGED <<nudges, trail, file, file_pos, saved>>

\* A check box is toggled: SectionControls.handleCheckBox,
\* Section.handleCheckBox, Sections.updateBackgroundPixmap.
CheckBoxToggle ==
    /\ \E i \in 1..Len(sections) :
         LET toggled == [Self EXCEPT !.sections[i].check_box = ~@]
         IN \E failed \in FailureSets(toggled.sections) :
              Apply(updateBackgroundPixmap(toggled, failed),
                    "updateBackgroundPixmap", 0)
    /\ UNCHANGED <<nudges, trail, file, file_pos, saved>>

\* A key press forwarded by SectionsView or SectionControlsList, the key
\* being one of K, limit bounding the number of nudge keys handled; the
\* nudge keys are written to the trail if recorded.
KeyPressUpTo(K, limit, recorded) ==
    /\ \E which_key \in K, failed \in FailureSets(sections) :
         /\ which_key \in NudgeKeys => nudges < limit
         /\ nudges' = IF which_key \in NudgeKeys THEN nudges + 1 ELSE nudges
         /\ trail' =
              IF recorded /\ which_key \in NudgeKeys
              THEN Append(trail,
                     [key |-> which_key,
                      from |-> IF active_section = 0 THEN <<>>
                               ELSE <<sections[active_section].x_spin_box,
                                      sections[active_section].y_spin_box,
                                      sections[active_section].angle_spin_box>>])
              ELSE trail
         /\ Apply(handleKeyEvent(Self, which_key, failed), which_key, 0)
    /\ UNCHANGED <<file, file_pos, saved>>

KeyPress(K) == KeyPressUpTo(K, MaxNudges, FALSE)

KeyEvent == KeyPress(Keys)

\* incrementActiveSection called with any integer diff.
IncrementActiveSection ==
    /\ \E diff \in (-MaxDelta)..MaxDelta :
         Apply(incrementActiveSection(Self, diff), "incrementActiveSection", diff)
    /\ UNCHANGED <<nudges, trail, file, file_pos, saved>>

\* The scene reports a change: SectionRenderer.handleSceneChange,
\* Sections.viewUpdate.
SceneChanged ==
    /\ \E failed \in FailureSets(sections) :
         Apply(viewUpdate(Self, failed), "viewUpdate", 0)
    /\ UNCHANGED <<nudges, trail, file, file_pos, saved>>

\* Every user-interface event.
Next ==
    \/ AddSection
    \/ SectionSelected
    \/ CheckBoxToggle
    \/ KeyEvent
    \/ SceneChanged

Spec == Init /\ [][Next]_vars

(***************************************************************************)
(* The collection and its cursor: sections are added, selected, stepped    *)
(* through and removed, and every key is handled; no check box is ticked.  *)
(***************************************************************************)
NextSelection ==
    \/ AddSection
    \/ SectionSelected
    \/ KeyEvent
    \/ IncrementActiveSection
    \/ SceneChanged

SpecSelection == Init /\ [][NextSelection]_vars

(***************************************************************************)
(* The background composite: sections are added, ticked and unticked, the  *)
(* active one is moved and turned and removed, and the view is refreshed,  *)
(* with renders that can fail.                                             *)
(***************************************************************************)
AddBackgroundSection == AddSectionFrom(BackgroundPoints, AngleInputs)

BackgroundKey == KeyPress({"Delete", "U", "D", "E"})

NextBackground ==
    \/ AddBackgroundSection
    \/ CheckBoxToggle
    \/ BackgroundKey
    \/ SceneChanged

SpecBackground == Init /\ [][NextBackground]_vars

(***************************************************************************)
(* Angle nudges: one section, holding any whole angle of the spin box's    *)
(* range (or one of a few fractional or out-of-range ones, which the spin  *)
(* box clamps), is nudged with Q and E.                                    *)
(***************************************************************************)
AngleStarts ==
    {1000 * d : d \in (AngleMinimum \div 100)..(AngleMaximum \div 100)}
        \cup {179500, -179500, 250, 400000, -400000}

InitAngle ==
    \E a \in AngleStarts : Started(addSection(NewSections, 0, 0, a))

AngleKey == KeyPress({"Q", "E"})

NextAngle == AngleKey

SpecAngle == InitAngle /\ [][NextAngle]_vars

(***************************************************************************)
(* The mosaic file: a collection is written to a file, the program is      *)
(* started again and the lines of the file are loaded one by one.          *)
(***************************************************************************)
\* (x, y, angle) in milli handed to addSection to build the collection.
FileSectionInputs ==
    {<<0, 0, 0>>, <<-500, 2340, -180000>>, <<1250, -10, 90500>>,
     <<1000000000, 7000, 400000>>, <<-1234560, 100000, -250>>,
     <<30, -1000000000, 179990>>}

RECURSIVE AddAll(_, _)
AddAll(st, inputs) ==
    IF Len(inputs) = 0 THEN st
    ELSE AddAll(addSection(st, inputs[1][1], inputs[1][2], inputs[1][3]),
                Tail(inputs))

Triple(s) == <<s.x_spin_box, s.y_spin_box, s.angle_spin_box>>
Triples(secs) == [i \in 1..Len(secs) |-> Triple(secs[i])]

InitFile ==
    \E n \in 1..MaxFileSections :
        \E inputs \in [1..n -> FileSectionInputs] :
            Started(AddAll(NewSections, inputs))

\* steve saves the mosaic: Sections.saveToMosaicFile.
SaveToMosaicFile ==
    /\ file_pos = 0
    /\ file' = saveToMosaicFile(Self)
    /\ saved' = Triples(sections)
    /\ Apply(Self, "saveToMosaicFile", 0)
    /\ UNCHANGED <<nudges, trail, file_pos>>

\* The program is started again to load the file: Sections.__init__.
Restart ==
    /\ file_pos = 0
    /\ Len(file) > 0
    /\ file_pos' = 1
    /\ Apply(NewSections, "init", 0)
    /\ UNCHANGED <<nudges, trail, file, saved>>

\* The loader hands the next line, split on commas, to
\* Sections.loadFromMosaicFileData.
LoadLine ==
    /\ file_pos \in 1..Len(file)
    /\ LET r == loadFromMosaicFileData(Self, Split(file[file_pos], ","))
       IN Apply(r.state, "loadFromMosaicFileData",
                IF r.returned THEN 1 ELSE 0)
    /\ file_pos' = file_pos + 1
    /\ UNCHANGED <<nudges, trail, file, saved>>

NextFile ==
    \/ SaveToMosaicFile
    \/ Restart
    \/ LoadLine

SpecFile == InitFile /\ [][NextFile]_vars

(***************************************************************************)
(* The calls of steve and of the view's menu and picture keys: sections    *)
(* at different points are added and removed, the grid is resized, picture *)
(* and position lists are requested, the markers are shown and hidden, and *)
(* the active section is stepped and removed with the keys.                *)
(***************************************************************************)
PicturePoints == {<<1254, -496>>, <<-2000, 30>>}
GridDims == {<<InitialNumberX, InitialNumberY>>, <<2, 1>>}
PictureCounts == {-1, 1, 2, 3, 5}

AddPictureSection == AddSectionFrom(PicturePoints, AngleInputs)

\* steve's grid spin boxes change: Sections.gridChange.
GridChange ==
    /\ \E d \in GridDims :
         /\ <<number_x, number_y>> # d
         /\ Apply(gridChange(Self, d[1], d[2]), "gridChange", 0)
    /\ UNCHANGED <<nudges, trail, file, file_pos, saved>>

\* SectionsView emits pictureEvent (Space, 3, 5, G or the menu):
\* Sections.handlePictures.
HandlePictures ==
    /\ \E number_pictures \in PictureCounts :
         Apply(handlePictures(Self, number_pictures), "handlePictures",
               number_pictures)
    /\ UNCHANGED <<nudges, trail, file, file_pos, saved>>

\* SectionsView emits positionEvent: Sections.handlePositions.
HandlePositions ==
    /\ Apply(handlePositions(Self), "handlePositions", 0)
    /\ UNCHANGED <<nudges, trail, file, file_pos, saved>>

\* steve shows or hides the section markers: Sections.setSceneItemsVisible.
SetSceneItemsVisible ==
    /\ \E a_visible \in BOOLEAN, failed \in FailureSets(sections) :
         Apply(setSceneItemsVisible(Self, a_visible, failed),
               "setSceneItemsVisible", 0)
    /\ UNCHANGED <<nudges, trail, file, file_pos, saved>>

PictureKey == KeyPress({"Up", "Down", "Delete"})

NextPictures ==
    \/ AddPictureSection
    \/ GridChange
    \/ HandlePictures
    \/ HandlePositions
    \/ SetSceneItemsVisible
    \/ PictureKey

SpecPictures == Init /\ [][NextPictures]_vars

(***************************************************************************)
(* A collection that is empty or holds one section: the section is added,  *)
(* moved, turned and removed again, the markers are shown and hidden, and  *)
(* every key is handled in both situations.                                *)
(***************************************************************************)
AddFirstSection ==
    /\ Len(sections) = 0
    /\ AddSection

NextEmpty ==
    \/ AddFirstSection
    \/ KeyEvent
    \/ SetSceneItemsVisible

SpecEmpty == Init /\ [][NextEmpty]_vars

(***************************************************************************)
(* The loader of a mosaic file hands lines of any record type, well formed *)
(* or not, to loadFromMosaicFileData; between them the active section is   *)
(* stepped and removed.  Each line is the list of its comma-separated      *)
(* fields.                                                                 *)
(***************************************************************************)
LoadInputs ==
    <<
      \* 1: a section line as the program writes it
      <<SectionTag, <<"0">>, <<"1", ".", "5">>, <<"-", "2">>, <<"9", "0">>>>,
      \* 2: blanks around x, and the line's CR LF left on the angle
      <<SectionTag, <<"1">>, <<" ", "7", " ">>, <<"0", ".", "2", "5">>, <<"1", "8", "0", ".", "0", "\r", "\n">>>>,
      \* 3: the tag alone
      <<SectionTag>>,
      \* 4: no y and no angle
      <<SectionTag, <<"0">>, <<"1", ".", "5">>>>,
      \* 5: three fields after the tag: no angle at data[4]
      <<SectionTag, <<"1", ".", "5">>, <<"-", "2">>, <<"9", "0">>>>,
      \* 6: x is not a number
      <<SectionTag, <<"0">>, <<"x">>, <<"-", "2">>, <<"9", "0">>>>,
      \* 7: y is empty
      <<SectionTag, <<"0">>, <<"1", ".", "5">>, <<>>, <<"9", "0">>>>,
      \* 8: the angle is not a number
      <<SectionTag, <<"0">>, <<"1", ".", "5">>, <<"-", "2">>, <<"1", ".", "2", ".", "3">>>>,
      \* 9: the section number is not a number
      <<SectionTag, <<"a", "b", "c">>, <<"-", "3">>, <<"4", ".", "7", "5">>, <<"-", "9", "0">>>>,
      \* 10: another record type
      <<<<"i", "m", "a", "g", "e">>, <<"0">>, <<"1", ".", "5">>, <<"-", "2">>, <<"9", "0">>>>,
      \* 11: the tag in another case
      <<<<"S", "e", "c", "t", "i", "o", "n">>, <<"0">>, <<"1", ".", "5">>, <<"-", "2">>, <<"9", "0">>>>,
      \* 12: a field too many
      <<SectionTag, <<"0">>, <<"1", ".", "5">>, <<"-", "2">>, <<"9", "0">>, <<"7">>>>
    >>

\* The file loader calls Sections.loadFromMosaicFileData with line number k
\* of LoadInputs.
LoadData ==
    /\ Len(sections) < MaxSections
    /\ \E k \in 1..Len(LoadInputs) :
         Apply(loadFromMosaicFileData(Self, LoadInputs[k]).state,
               "loadFromMosaicFileData", k)
    /\ UNCHANGED <<nudges, trail, file, file_pos, saved>>

LoadKey == KeyPress({"Down", "Delete"})

NextLoad ==
    \/ LoadData
    \/ LoadKey

SpecLoad == Init /\ [][NextLoad]_vars

(***************************************************************************)
(* Renders and the scene-wide flag: the rest of steve shows or hides the   *)
(* scene's ellipses and rectangles through mosaicView.displayEllipseRect,  *)
(* and sections are added, ticked, dumped (P) and redrawn.                 *)
(***************************************************************************)
\* steve calls mosaicView.displayEllipseRect.
DisplayEllipseRect ==
    /\ \E should_display \in BOOLEAN :
         /\ should_display # ellipse_rect
         /\ Apply(displayEllipseRect(Self, should_display),
                  "displayEllipseRect", 0)
    /\ UNCHANGED <<nudges, trail, file, file_pos, saved>>

RenderKey == KeyPress({"P", "U"})

NextRender ==
    \/ AddSection
    \/ DisplayEllipseRect
    \/ CheckBoxToggle
    \/ RenderKey
    \/ SceneChanged

SpecRender == Init /\ [][NextRender]_vars

(***************************************************************************)
(* Nudges: a collection of sections, some of them at the ends of the spin  *)
(* boxes' ranges, whose rows are clicked and whose active section is moved *)
(* and turned with W, A, S, D, Q and E.                                    *)
(***************************************************************************)
\* (x, y, angle) in milli handed to addSection to build the collection.
NudgeInputs ==
    {<<1254, -496, 0>>, <<1000000000, -1000000000, 180000>>,
     <<-999999700, 999999800, -180000>>}

InitNudge ==
    \E n \in 1..MaxSections :
        \E inputs \in [1..n -> NudgeInputs] :
            Started(AddAll(NewSections, inputs))

NudgeKey == KeyPressUpTo(NudgeKeys, MaxNudges, TRUE)

NextNudge ==
    \/ NudgeKey
    \/ SectionSelected

SpecNudge == InitNudge /\ [][NextNudge]_vars

(***************************************************************************)
(* Two angle nudges in a row: one section, holding any whole angle of the  *)
(* spin box's range, is nudged with Q and E once more than elsewhere.      *)
(***************************************************************************)
InverseKey == KeyPressUpTo({"Q", "E"}, MaxNudges + 1, TRUE)

NextInverse == InverseKey

SpecInverse == InitAngle /\ [][NextInverse]_vars

(***************************************************************************)
(* Keys pressed in the view: SectionsView.keyPressEvent emits its signal   *)
(* and the slot of Sections connected to it, handlePictures or             *)
(* handleKeyEvent, runs.                                                   *)
(***************************************************************************)
ViewKeyInputs ==
    <<"Space", "3", "5", "G", "Up", "Down", "W", "S", "A", "D", "Q", "E",
      "P", "Delete", "U", "Other">>

ViewKeyPress ==
    /\ \E k \in 1..Len(ViewKeyInputs), failed \in FailureSets(sections) :
         LET key == ViewKeyInputs[k]
             event == keyPressEvent(key)
             st == [Self EXCEPT !.view_emitted = <<event>>]
         IN /\ key \in NudgeKeys => nudges < MaxNudges
            /\ nudges' = IF key \in NudgeKeys THEN nudges + 1 ELSE nudges
            /\ IF event.signal = "pictureEvent"
               THEN Apply(handlePictures(st, event.count), "keyPressEvent", k)
               ELSE Apply(handleKeyEvent(st, event.key, failed),
                          "keyPressEvent", k)
    /\ UNCHANGED <<trail, file, file_pos, saved>>

NextView ==
    \/ AddSection
    \/ ViewKeyPress

SpecView == Init /\ [][NextView]_vars

(***************************************************************************)
(* Properties.                                                             *)
(***************************************************************************)
SectionNumbers(secs) == [i \in 1..Len(secs) |-> secs[i].section_number]
SelectedRows(secs) == {i \in 1..Len(secs) : secs[i].selected}
CheckedRows(secs) == {i \in 1..Len(secs) : secs[i].check_box}

\* The section number of the active section.
ActiveIndex(secs, active) == secs[active].section_number

\* The last handler ran updateBackgroundPixmap after all its changes to the
\* sections: a check box toggle, a view update, or a nudge of an active
\* section that is checked.
BackgroundRan ==
    \/ last_op \in {"updateBackgroundPixmap", "viewUpdate", "U"}
    \/ /\ last_op \in NudgeKeys
       /\ active_section # 0
       /\ sections[active_section].check_box

RenderOf(s) == renderSectionPixmap(s.x_spin_box, s.y_spin_box, s.angle_spin_box)

RECURSIVE SumPixel(_, _, _)
SumPixel(secs, rows, k) ==
    IF rows = {} THEN 0
    ELSE LET i == CHOOSE j \in rows : TRUE
         IN RenderOf(secs[i])[k] + SumPixel(secs, rows \ {i}, k)

\* The pixel-wise mean (as 8-bit pixel values) of the renders of rows.
MeanFrame(secs, rows) ==
    [k \in 1..FramePixels |-> SumPixel(secs, rows, k) \div Cardinality(rows)]

\* C1: after every operation the section numbers of the sections are
\* exactly 0..count-1 in list order, without duplicates or gaps.
C1_NumbersDense ==
    \A i \in 1..Len(sections) : sections[i].section_number = i - 1

\* A section was removed from in front of another one, which was renumbered.
C1_Witness ==
    /\ last_op = "Delete"
    /\ Len(sections) = 2
    /\ ~sections[2].selected /\ sections[2].pen = "selected_pen"
    /\ sections[2].section_number = 1

\* C2: whenever the collection is non-empty exactly one section is selected,
\* and it is the active one; when it is empty nothing is selected or active.
C2_OneSelected ==
    IF Len(sections) > 0
    THEN /\ Cardinality(SelectedRows(sections)) = 1
         /\ active_section \in SelectedRows(sections)
    ELSE active_section = 0

\* A click moved the selection from one row to another.
C2_Witness ==
    /\ last_op = "handleActiveSectionUpdate"
    /\ Len(sections) = 3
    /\ active_section = 3
    /\ sections[1].pen = "deselected_pen"
    /\ sections[2].pen = "deselected_pen"

\* C3: with three checked sections of which exactly one render fails, at
\* whichever position, the composite is the mean of the two other renders.
C3_FailedRenderSkipped ==
    (/\ BackgroundRan
     /\ Cardinality(CheckedRows(sections)) = 3
     /\ Cardinality(failed_renders) = 1)
        => /\ raised = "none"
           /\ background_pixmap =
                Pixmap(MeanFrame(sections, CheckedRows(sections) \ failed_renders))

\* C4: when every render succeeds the composite is the pixel-wise mean of
\* the renders of exactly the checked sections.
C4_MeanOfChecked ==
    (/\ BackgroundRan
     /\ CheckedRows(sections) # {}
     /\ failed_renders = {})
        => background_pixmap = Pixmap(MeanFrame(sections, CheckedRows(sections)))

\* Two sections with different renders are averaged, a third is unchecked.
C4_Witness ==
    /\ BackgroundRan
    /\ failed_renders = {}
    /\ Len(sections) = 3
    /\ CheckedRows(sections) = {1, 3}
    /\ RenderOf(sections[1]) # RenderOf(sections[3])
    /\ background_pixmap # Pixmap(RenderOf(sections[1]))

\* C5: whenever updateBackgroundPixmap runs and no section qualifies (none
\* is checked, or there is none at all) no composite stays displayed.
C5_ClearedWhenNoneQualify ==
    (BackgroundRan /\ CheckedRows(sections) = {})
        => background_pixmap.kind # "pixmap"

\* C6: removeActiveSection on N sections with active index k leaves the
\* N-1 others in order, and activates k-1 if k > 0, else 0 if any remain,
\* else nothing.
C6_RemoveReactivates ==
    [][(last_op' = "Delete" /\ active_section # 0) =>
         LET k == ActiveIndex(sections, active_section)
             N == Len(sections)
         IN /\ Len(sections') = N - 1
            /\ \A i \in 1..(N - 1) :
                 LET old == sections[IF i < k + 1 THEN i ELSE i + 1]
                 IN /\ Triple(sections'[i]) = Triple(old)
                    /\ sections'[i].check_box = old.check_box
            /\ IF N = 1 THEN active_section' = 0
               ELSE /\ active_section' # 0
                    /\ ActiveIndex(sections', active_section') =
                         (IF k > 0 THEN k - 1 ELSE 0)
            /\ (N = 3 /\ k = 1) =>
                 /\ SectionNumbers(sections') = <<0, 1>>
                 /\ ActiveIndex(sections', active_section') = 0]_vars

\* The middle or the first of three sections was removed.
C6_Witness ==
    /\ last_op = "Delete"
    /\ Len(sections) = 2
    /\ active_section = 1
    /\ sections[1].selected
    /\ nudges = 1
    /\ Triple(sections[1]) # Triple(sections[2])

\* C7: incrementActiveSection(delta) on N > 0 sections with active index a
\* makes the active index the member of [0, N) congruent to a + delta
\* modulo N; on an empty collection it changes nothing and raises nothing.
C7_IncrementWraps ==
    [][(last_op' \in {"incrementActiveSection", "Up", "Down"}) =>
         LET delta == IF last_op' = "Up" THEN -1
                      ELSE IF last_op' = "Down" THEN 1
                      ELSE last_arg'
             N == Len(sections)
         IN IF N > 0
            THEN LET a == ActiveIndex(sections, active_section)
                     b == ActiveIndex(sections', active_section')
                 IN /\ raised' = "none"
                    /\ Len(sections') = N
                    /\ active_section' # 0
                    /\ b >= 0 /\ b < N
                    /\ \E q \in (-MaxDelta - 1)..(MaxDelta + 1) :
                         b = a + delta + q * N
                    /\ (last_op' = "Up" /\ a = 0) => b = N - 1
                    /\ (last_op' = "Down" /\ a = N - 1) => b = 0
            ELSE /\ raised' = "none"
                 /\ UNCHANGED <<sections, active_section, background_pixmap,
                                foreground_pixmap>>]_vars

\* A negative delta of more than one turn wrapped around three sections.
C7_Witness ==
    /\ last_op = "incrementActiveSection"
    /\ last_arg = -MaxDelta
    /\ Len(sections) = 3
    /\ active_section = 3
    /\ raised = "none"

\* The angle held by the active section.
ActiveAngle(secs, active) == secs[active].angle_spin_box

InHalfOpenRange(secs) ==
    \A i \in 1..Len(secs) :
        secs[i].angle_spin_box > AngleMinimum /\ secs[i].angle_spin_box <= AngleMaximum

\* C8: incrementAngle wraps instead of clamping: one step up from 179 stays
\* within (-180, 180]; a step past the maximum gives the minimum plus the
\* overshoot; one step down from -180 gives 180 less the step.
C8_AngleWraps ==
    [][(active_section # 0 /\ last_op' \in {"Q", "E"}) =>
         LET a == ActiveAngle(sections, active_section)
             b == ActiveAngle(sections', active_section')
         IN /\ (last_op' = "E" /\ a = AngleMaximum - angle_step) =>
                 (b > AngleMinimum /\ b <= AngleMaximum)
            /\ (last_op' = "E" /\ a + angle_step > AngleMaximum) =>
                 b = AngleMinimum + (a + angle_step - AngleMaximum)
            /\ (last_op' = "Q" /\ a = AngleMinimum) =>
                 b = AngleMaximum - angle_step]_vars

\* A step up from 179.5 went past the maximum and wrapped to -179.5.
C8_Witness ==
    /\ last_op = "E"
    /\ nudges = 1
    /\ Len(sections) = 1
    /\ sections[1].angle_spin_box = AngleMinimum + (angle_step \div 2)

\* C9 as stated: starting from angles in (-180, 180], Q and E nudges keep
\* every section's angle in (-180, 180]; -180 is never reached.
C9_HalfOpenRange ==
    [][InHalfOpenRange(sections) => InHalfOpenRange(sections')]_vars

\* C9 as amended: every section's angle is in the closed range [-180, 180]
\* in every reachable state.
C9_ClosedRange ==
    \A i \in 1..Len(sections) :
        /\ sections[i].angle_spin_box >= AngleMinimum
        /\ sections[i].angle_spin_box <= AngleMaximum

\* A step down from -179 reached -180.
C9_Witness ==
    /\ last_op = "Q"
    /\ nudges = 1
    /\ Len(sections) = 1
    /\ sections[1].angle_spin_box = AngleMinimum

\* C10: the lines written by saveToMosaicFile, split on commas and loaded
\* one by one into a new Sections, add sections with the same (x, y, angle)
\* as the saved ones, in the same order.
C10_RoundTrip ==
    file_pos >= 1 =>
        /\ raised = "none"
        /\ Len(sections) = file_pos - 1
        /\ Triples(sections) = SubSeq(saved, 1, file_pos - 1)

\* A whole file of two sections, with negative and fractional values and
\* the largest position, has been loaded.
C10_Witness ==
    /\ last_op = "loadFromMosaicFileData"
    /\ file_pos = Len(file) + 1
    /\ Len(sections) = 2
    /\ Triple(sections[1]) = <<-123456, 10000, -25>>
    /\ Triple(sections[2]) = <<PosMaximum, 700, AngleMaximum>>

\* A line ends with CR LF and has no other CR or LF.
EndsWithCRLF(line) ==
    /\ Len(line) >= 2
    /\ line[Len(line) - 1] = "\r" /\ line[Len(line)] = "\n"
    /\ \A k \in 1..(Len(line) - 2) : line[k] \notin {"\r", "\n"}

\* The comma-separated fields of a line, without its terminator.
LineFields(line) == Split(SubSeq(line, 1, Len(line) - 2), ",")

\* The fields from position first on are (x, y, angle), as decimal numbers.
FieldsHold(fields, first, triple) ==
    \A k \in 1..3 :
        LET f == ParseFloat(fields[first + k - 1])
        IN f.ok /\ f.value = 10 * triple[k]

\* C11 as stated: every line written for a section is the tag followed by
\* exactly three numeric fields, x, y and the angle, and ends with CR LF.
C11_ThreeFields ==
    \A i \in 1..Len(file) :
        /\ EndsWithCRLF(file[i])
        /\ Len(LineFields(file[i])) = 4
        /\ LineFields(file[i])[1] = SectionTag
        /\ FieldsHold(LineFields(file[i]), 2, saved[i])

\* C11 as amended: every line written for a section is the tag followed by
\* exactly four numeric fields, the section's number, x, y and the angle,
\* and ends with CR LF.
C11_FourFields ==
    \A i \in 1..Len(file) :
        /\ EndsWithCRLF(file[i])
        /\ Len(LineFields(file[i])) = 5
        /\ LineFields(file[i])[1] = SectionTag
        /\ IsDigits(LineFields(file[i])[2])
        /\ DigitsValue(LineFields(file[i])[2]) = i - 1
        /\ FieldsHold(LineFields(file[i]), 3, saved[i])

\* Two sections were written, the second with a negative fractional angle.
C11_Witness ==
    /\ last_op = "saveToMosaicFile"
    /\ Len(file) = 2
    /\ saved[2] = <<-123456, 10000, -25>>
    /\ saved[1] = <<125, -1, 9050>>

\* The point a section is at, as a target of a list.
LocationOf(s) == [kind |-> "location", a |-> s.x_spin_box, b |-> s.y_spin_box]

\* The number of offsets that follow each location for a picture count.
OffsetsPerSection(count, nx, ny) ==
    IF count > 1 THEN count ELSE IF count = -1 THEN nx * ny ELSE 0

\* C12: handlePictures emits one list, in section order, of each section's
\* location followed by its offsets: 32 targets for the 5 x 3 grid on two
\* sections, 4 for a count of 3 on one section, and for a count of 1 the
\* locations alone.
C12_PictureTargets ==
    (last_op = "handlePictures" /\ Len(sections) > 0) =>
        /\ Len(emitted) = 1
        /\ emitted[1].signal = "takePictures"
        /\ LET list == emitted[1].list
               per == OffsetsPerSection(last_arg, number_x, number_y)
               N == Len(sections)
           IN /\ Len(list) = N * (1 + per)
              /\ \A i \in 1..N :
                   /\ list[(i - 1) * (1 + per) + 1] = LocationOf(sections[i])
                   /\ \A k \in 1..per :
                        list[(i - 1) * (1 + per) + 1 + k].kind # "location"
              /\ (last_arg = -1 /\ number_x = 5 /\ number_y = 3 /\ N = 2)
                    => Len(list) = 32
              /\ (last_arg = 3 /\ N = 1) => Len(list) = 4
              /\ last_arg = 1 =>
                    list = [i \in 1..N |-> LocationOf(sections[i])]

\* The 5 x 3 grid was requested for two sections at different points.
C12_Witness ==
    /\ last_op = "handlePictures"
    /\ last_arg = -1
    /\ number_x = 5 /\ number_y = 3
    /\ Len(sections) = 2
    /\ LocationOf(sections[1]) # LocationOf(sections[2])
    /\ Len(emitted) = 1
    /\ Len(emitted[1].list) = 32

\* C18: handlePositions and handlePictures emit nothing when the collection
\* is empty and exactly one signal otherwise, handlePositions' list being
\* the locations of all sections in order; neither changes the collection,
\* the active section or the pixmaps.
C18_EmitOnlyWhenNonEmpty ==
    [][(last_op' \in {"handlePictures", "handlePositions"}) =>
         /\ raised' = "none"
         /\ UNCHANGED <<sections, active_section, background_pixmap,
                        foreground_pixmap>>
         /\ IF Len(sections) = 0 THEN emitted' = <<>>
            ELSE /\ Len(emitted') = 1
                 /\ last_op' = "handlePictures" =>
                      emitted'[1].signal = "takePictures"
                 /\ last_op' = "handlePositions" =>
                      /\ emitted'[1].signal = "addPositions"
                      /\ Len(emitted'[1].list) = Len(sections)
                      /\ \A i \in 1..Len(sections) :
                           emitted'[1].list[i] = LocationOf(sections[i])]_vars

\* The positions of three sections, not all at one point, were emitted.
C18_Witness ==
    /\ last_op = "handlePositions"
    /\ Len(sections) = 3
    /\ LocationOf(sections[1]) # LocationOf(sections[3])
    /\ Len(emitted) = 1
    /\ Len(emitted[1].list) = 3

\* The positions of an emptied collection were requested.
C18_EmptyWitness ==
    /\ last_op = "handlePositions"
    /\ Len(sections) = 0
    /\ emitted = <<>>
    /\ foreground_pixmap.kind = "pixmap"

\* The keys of the dispatch table of handleKeyEvent.
DispatchKeys == {"Up", "Down", "W", "A", "S", "D", "Q", "E", "P", "Delete", "U"}

\* C13: on an empty collection every key of the dispatch table, and
\* setSceneItemsVisible with the handleSectionUpdate it runs, completes
\* without raising and leaves the collection, the active section and both
\* pixmaps unchanged.
C13_EmptyIsNoOp ==
    [][(Len(sections) = 0
        /\ last_op' \in DispatchKeys \cup {"setSceneItemsVisible"}) =>
         /\ raised' = "none"
         /\ UNCHANGED <<sections, active_section, background_pixmap,
                        foreground_pixmap>>]_vars

\* The control rows' selected flags, in list order.
SelectedFlags(secs) == [i \in 1..Len(secs) |-> secs[i].selected]

\* C14: addSection appends the new section at index = previous count; with
\* no active section the new one becomes the active, selected one; with an
\* active section, the active section and every existing section's
\* selection state stay as they were.
C14_AddActivatesFirst ==
    [][(last_op' = "addSection") =>
         LET N == Len(sections)
         IN /\ raised' = "none"
            /\ Len(sections') = N + 1
            /\ sections'[N + 1].section_number = N
            /\ \A i \in 1..N : Triple(sections'[i]) = Triple(sections[i])
            /\ IF active_section = 0
               THEN /\ active_section' = N + 1
                    /\ sections'[N + 1].selected
               ELSE /\ active_section' = active_section
                    /\ SubSeq(SelectedFlags(sections'), 1, N) =
                         SelectedFlags(sections)
                    /\ ~sections'[N + 1].selected]_vars

\* A section was nudged and removed, which emptied the collection (the
\* foreground still shows it where it was nudged to), and the section added
\* next became the active one.
C14_Witness ==
    /\ last_op = "addSection"
    /\ nudges = 1
    /\ Len(sections) = 1
    /\ \E p \in PointInputs :
         Triple(sections[1]) = <<RoundToCenti(p[1]), RoundToCenti(p[2]), 0>>
    /\ foreground_pixmap.kind = "pixmap"
    /\ foreground_pixmap.data # RenderOf(sections[1])
    /\ active_section = 1
    /\ sections[1].selected

\* A third section was added while the second one was active.
C14_SecondWitness ==
    /\ last_op = "addSection"
    /\ Len(sections) = 3
    /\ active_section = 2
    /\ SelectedFlags(sections) = <<FALSE, TRUE, FALSE>>

\* The composite of the checked sections of secs, none when none is checked.
CompositeOf(secs) ==
    IF CheckedRows(secs) = {} THEN FalsePixmap
    ELSE Pixmap(MeanFrame(secs, CheckedRows(secs)))

\* C15: when the removal of a checked section, a check box toggle or an
\* edit of a checked section completes (and no render failed), the
\* background is the mean of the renders of the sections checked now, at
\* their positions and angles of now.
C15_RecomputedWithinOperation ==
    [][(/\ \/ last_op' = "updateBackgroundPixmap"
            \/ /\ last_op' \in NudgeKeys \cup {"Delete"}
               /\ active_section # 0
               /\ sections[active_section].check_box
         /\ raised' = "none"
         /\ failed_renders' = {}) =>
            background_pixmap' = CompositeOf(sections')]_vars

\* A field is a decimal number.
IsNumber(field) == ParseFloat(field).ok

\* data is tagged "section" and a field the loader needs is missing, or
\* some field after the tag is not a number.
MalformedSectionLine(data) ==
    /\ data[1] = SectionTag
    /\ \/ Len(data) < 5
       \/ \E k \in 2..Len(data) : ~IsNumber(data[k])

\* data is tagged "section" and x, y or the angle (data[2], data[3],
\* data[4] of the code) is missing or not a number.
MalformedLocation(data) ==
    /\ data[1] = SectionTag
    /\ \/ Len(data) < 5
       \/ \E k \in 3..5 : ~IsNumber(data[k])

\* C16 as stated: a line tagged "section" with a missing or non-numeric
\* field makes loadFromMosaicFileData raise, and the collection and the
\* active section stay exactly as they were.
C16_MalformedFailsHard ==
    [][(/\ last_op' = "loadFromMosaicFileData"
         /\ MalformedSectionLine(LoadInputs[last_arg'])) =>
            /\ raised' \in {"ValueError", "IndexError"}
            /\ returned' = "None"
            /\ UNCHANGED <<sections, active_section>>]_vars

\* C16 as amended: a line tagged "section" whose x, y or angle field is
\* missing or not a number makes loadFromMosaicFileData raise, and the
\* collection and the active section stay exactly as they were.
C16_MalformedLocationFailsHard ==
    [][(/\ last_op' = "loadFromMosaicFileData"
         /\ MalformedLocation(LoadInputs[last_arg'])) =>
            /\ raised' \in {"ValueError", "IndexError"}
            /\ returned' = "None"
            /\ UNCHANGED <<sections, active_section>>]_vars

\* A line whose x and y are numbers and whose angle is not was refused, two
\* sections being loaded already.
C16_Witness ==
    /\ last_op = "loadFromMosaicFileData"
    /\ last_arg = 8
    /\ raised = "ValueError"
    /\ Len(sections) = 2
    /\ active_section = 2

\* The (x, y, angle) of the section that line k of LoadInputs describes.
LoadedTriple(k) ==
    CASE k = 2 -> <<700, 25, 18000>>
      [] k = 9 -> <<-300, 475, -9000>>
      [] OTHER -> <<150, -200, 9000>>

\* C17: a call of loadFromMosaicFileData that returns, returns true exactly
\* when the first token is "section", and then exactly one section has been
\* added as addSection adds it; otherwise it returns false and the
\* collection, the active section and the pixmaps are unchanged.
C17_ReturnsRecognized ==
    [][(last_op' = "loadFromMosaicFileData" /\ raised' = "none") =>
         LET data == LoadInputs[last_arg']
             N == Len(sections)
         IN IF data[1] = SectionTag
            THEN /\ returned' = "True"
                 /\ Len(sections') = N + 1
                 /\ SubSeq(sections', 1, N) = sections
                 /\ Triple(sections'[N + 1]) = LoadedTriple(last_arg')
                 /\ sections'[N + 1].section_number = N
                 /\ active_section' =
                      (IF active_section = 0 THEN 1 ELSE active_section)
                 /\ UNCHANGED <<background_pixmap, foreground_pixmap>>
            ELSE /\ returned' = "False"
                 /\ UNCHANGED <<sections, active_section, background_pixmap,
                                foreground_pixmap>>]_vars

\* A third section was loaded from a line with blanks and a line end.
C17_Witness ==
    /\ last_op = "loadFromMosaicFileData"
    /\ last_arg = 2
    /\ returned = "True"
    /\ Len(sections) = 3
    /\ Triple(sections[3]) = <<700, 25, 18000>>
    /\ active_section = 1

\* A line of another record type was handed over and left alone.
C17_OtherTagWitness ==
    /\ last_op = "loadFromMosaicFileData"
    /\ last_arg = 10
    /\ returned = "False"
    /\ Len(sections) = 2

\* C19: whenever a handler has rendered (renderSectionPixmap, alone or
\* within renderSectionNumpy), the scene-wide flag has the value it had
\* before, shown or hidden, and it was hidden at every capture.
C19_FlagRestored ==
    [][(captured' # {}) =>
         /\ ellipse_rect' = ellipse_rect
         /\ captured' = {FALSE}]_vars

\* C20: saveToMosaicFile writes exactly one line per section, the i-th
\* line being that of the section with index i, and changes neither the
\* collection, nor the active section, nor the pixmaps.
C20_OneLinePerSection ==
    [][(last_op' = "saveToMosaicFile") =>
         /\ raised' = "none"
         /\ Len(file') = Len(sections)
         /\ \A i \in 1..Len(sections) :
              /\ EndsWithCRLF(file'[i])
              /\ Len(LineFields(file'[i])) = 5
              /\ DigitsValue(LineFields(file'[i])[2]) =
                   sections[i].section_number
              /\ sections[i].section_number = i - 1
              /\ FieldsHold(LineFields(file'[i]), 3, Triple(sections[i]))
         /\ UNCHANGED <<sections, active_section, background_pixmap,
                        foreground_pixmap>>]_vars

\* Two different sections were written, the one at the largest x first.
C20_Witness ==
    /\ last_op = "saveToMosaicFile"
    /\ Len(file) = 2
    /\ Len(sections) = 2
    /\ Triple(sections[1]) = <<PosMaximum, 700, AngleMaximum>>
    /\ Triple(sections[2]) = <<0, 0, 0>>
    /\ active_section = 1

\* C21: handleSectionUpdate, run after an edit of the active section's
\* position or angle, always makes the foreground the render of the active
\* section where it is now, recomputes the background composite when the
\* active section is checked, and leaves the background alone when not.
C21_EditRecomputes ==
    [][(last_op' \in NudgeKeys /\ active_section # 0) =>
         /\ raised' = "none"
         /\ foreground_pixmap' = Pixmap(RenderOf(sections'[active_section']))
         /\ IF sections[active_section].check_box
            THEN failed_renders' = {} =>
                    background_pixmap' = CompositeOf(sections')
            ELSE background_pixmap' = background_pixmap]_vars

\* The active one of two checked sections was moved, and the composite
\* follows it.
C21_Witness ==
    /\ last_op = "D"
    /\ nudges = 1
    /\ Len(sections) = 2
    /\ CheckedRows(sections) = {1, 2}
    /\ failed_renders = {}
    /\ Triple(sections[1]) # Triple(sections[2])
    /\ background_pixmap = CompositeOf(sections)
    /\ background_pixmap # Pixmap(RenderOf(sections[2]))

\* C22: in every state the marker of every section is styled as its control
\* row is: selected pen and raised draw order when the row is selected,
\* deselected pen and normal draw order when it is not, a new section that
\* is not activated included.
C22_MarkerAgreesWithSelection ==
    \A i \in 1..Len(sections) :
        IF sections[i].selected
        THEN sections[i].pen = "selected_pen" /\ sections[i].z = ZSelected
        ELSE sections[i].pen = "deselected_pen" /\ sections[i].z = ZDeselected

\* The foreground that shows the active section of a state, none when no
\* section is active.
ForegroundShowsActive(secs, active, foreground) ==
    IF active = 0 THEN foreground.kind # "pixmap"
    ELSE foreground = Pixmap(RenderOf(secs[active]))

\* C23: when an operation that changes the active section completes (an
\* arrow key, a click on another row, a removal, the first addSection) the
\* foreground is the render of the new active section, and no foreground
\* remains when no section is active any more.
C23_ForegroundFollowsActive ==
    [][(\/ active_section' # active_section
        \/ last_op' = "Delete" /\ active_section # 0) =>
         ForegroundShowsActive(sections', active_section',
                               foreground_pixmap')]_vars

\* An angle brought back into [-180, 180] by one full turn.
WrapAngle(v) ==
    IF v > AngleMaximum THEN v - (AngleMaximum - AngleMinimum)
    ELSE IF v < AngleMinimum THEN v + (AngleMaximum - AngleMinimum)
    ELSE v

\* A position kept within the range of its spin box.
ClampPos(v) == Max2(PosMinimum, Min2(PosMaximum, v))

\* The (x, y, angle) a nudge key makes of t when nothing limits the step.
NudgedExactly(key, t) ==
    CASE key = "W" -> <<t[1], t[2] - PositionNudge, t[3]>>
      [] key = "S" -> <<t[1], t[2] + PositionNudge, t[3]>>
      [] key = "A" -> <<t[1] - PositionNudge, t[2], t[3]>>
      [] key = "D" -> <<t[1] + PositionNudge, t[2], t[3]>>
      [] key = "Q" -> <<t[1], t[2], WrapAngle(t[3] - angle_step)>>
      [] key = "E" -> <<t[1], t[2], WrapAngle(t[3] + angle_step)>>

\* The same with x and y limited to the range of their spin boxes.
NudgedWithinRange(key, t) ==
    LET n == NudgedExactly(key, t)
    IN <<ClampPos(n[1]), ClampPos(n[2]), n[3]>>

\* A nudge key changed nothing but the (x, y, angle) of the active section.
NudgeFrame ==
    /\ raised' = "none"
    /\ Len(sections') = Len(sections)
    /\ active_section' = active_section
    /\ \A i \in 1..Len(sections) :
         /\ i # active_section => sections'[i] = sections[i]
         /\ sections'[i].section_number = sections[i].section_number
         /\ sections'[i].check_box = sections[i].check_box
         /\ sections'[i].selected = sections[i].selected

\* C24 as stated: with an active section a nudge key changes only the
\* active section and only the named field, W/S its y by -0.5/+0.5, A/D its
\* x by -0.5/+0.5 and Q/E its angle by one step down/up with wrap.
C24_NudgeChangesOnlyField ==
    [][(last_op' \in NudgeKeys /\ active_section # 0) =>
         /\ NudgeFrame
         /\ Triple(sections'[active_section]) =
              NudgedExactly(last_op', Triple(sections[active_section]))]_vars

\* C24 as amended: the same, the new x or y being limited to the range
\* [-1e6, 1e6] of its spin box.
C24_NudgeWithinRange ==
    [][(last_op' \in NudgeKeys /\ active_section # 0) =>
         /\ NudgeFrame
         /\ Triple(sections'[active_section]) =
              NudgedWithinRange(last_op', Triple(sections[active_section]))]_vars

\* The middle one of three sections was moved up by W.
C24_Witness ==
    /\ last_op = "W"
    /\ Len(sections) = 3
    /\ active_section = 2
    /\ Len(trail) = 1
    /\ trail[1].key = "W"
    /\ Triple(sections[2]) =
         <<trail[1].from[1], trail[1].from[2] - PositionNudge, trail[1].from[3]>>
    /\ Triple(sections[1]) # Triple(sections[3])

\* D was pressed for a section at the largest x, which stayed there.
C24_RangeWitness ==
    /\ last_op = "D"
    /\ Len(trail) = 1
    /\ trail[1].from[1] = PosMaximum
    /\ sections[active_section].x_spin_box = PosMaximum

\* C25: every key press received by SectionsView emits exactly one event:
\* Space, 3, 5 and G a picture request with count 1, 3, 5 and -1 and no key
\* code, every other key its unmodified key code and no picture request;
\* the picture keys and the keys without a handler leave the collection as
\* it is.
C25_OneEventPerKey ==
    [][(last_op' = "keyPressEvent") =>
         LET key == ViewKeyInputs[last_arg']
             picture == [signal |-> "pictureEvent", count |-> 0, key |-> ""]
         IN /\ Len(view_emitted') = 1
            /\ key = "Space" => view_emitted'[1] = [picture EXCEPT !.count = 1]
            /\ key = "3" => view_emitted'[1] = [picture EXCEPT !.count = 3]
            /\ key = "5" => view_emitted'[1] = [picture EXCEPT !.count = 5]
            /\ key = "G" => view_emitted'[1] = [picture EXCEPT !.count = -1]
            /\ key \notin {"Space", "3", "5", "G"} =>
                 view_emitted'[1] =
                    [signal |-> "keyEvent", count |-> 0, key |-> key]
            /\ view_emitted'[1].signal = "keyEvent" =>
                 (emitted' = <<>> /\ key \in DispatchKeys \cup {"Other"})
            /\ key \in {"Space", "3", "5", "G", "Other"} =>
                 UNCHANGED <<sections, active_section>>]_vars

\* G was pressed with two sections: one grid picture request, answered by
\* Sections with a list of 32 targets.
C25_Witness ==
    /\ last_op = "keyPressEvent"
    /\ ViewKeyInputs[last_arg] = "G"
    /\ Len(sections) = 2
    /\ view_emitted = <<[signal |-> "pictureEvent", count |-> -1, key |-> ""]>>
    /\ Len(emitted) = 1
    /\ Len(emitted[1].list) = 32

\* Delete was pressed in the view and forwarded, and Sections removed the
\* active section.
C25_ForwardWitness ==
    /\ last_op = "keyPressEvent"
    /\ ViewKeyInputs[last_arg] = "Delete"
    /\ view_emitted = <<[signal |-> "keyEvent", count |-> 0, key |-> "Delete"]>>
    /\ Len(sections) = 2
    /\ sections[2].pen = "deselected_pen"

\* C26: there is an active section if and only if the collection is not
\* empty, and the active section is the member of the collection found at
\* the index equal to its own section number.
C26_CursorConsistent ==
    /\ (active_section # 0) <=> (Len(sections) > 0)
    /\ active_section # 0 =>
         /\ active_section \in 1..Len(sections)
         /\ PyIndex(Len(sections), sections[active_section].section_number)
              = active_section

\* The last of three sections was active when the first two were removed
\* after stepping back to them.
C26_Witness ==
    /\ last_op = "Delete"
    /\ nudges = 0
    /\ Len(sections) = 1
    /\ active_section = 1
    /\ sections[1].section_number = 0
    /\ sections[1].pen = "selected_pen"
    /\ sections[1].selected

\* Adds, removals and clicks on the control rows: the clicked row emits its
\* own section number. The D key marks the active section by moving it, so
\* that a later state shows whether the marked section is still there.
ClickKey == KeyPressUpTo({"Delete", "D"}, MaxNudges, TRUE)

NextClick ==
    \/ AddSection
    \/ SectionSelected
    \/ ClickKey

SpecClick == Init /\ [][NextClick]_vars

\* C27: the notification of a control row carries the current index of its
\* section, so that a click makes the section of that row the active one
\* (an index in range, the row that emitted it, no other section touched),
\* and a notification from the active section changes nothing.
C27_ClickActivatesRow ==
    [][(last_op' = "handleActiveSectionUpdate") =>
         LET pos == last_arg' + 1
         IN /\ raised' = "none"
            /\ pos \in 1..Len(sections)
            /\ sections[pos].section_number = last_arg'
            /\ \A i \in 1..Len(sections) :
                 sections[i].section_number = last_arg' => i = pos
            /\ active_section' = pos
            /\ Len(sections') = Len(sections)
            /\ sections'[pos].selected
            /\ \A i \in 1..Len(sections) :
                 /\ Triple(sections'[i]) = Triple(sections[i])
                 /\ sections'[i].section_number = sections[i].section_number
                 /\ i # pos => ~sections'[i].selected
            /\ active_section = pos =>
                 UNCHANGED <<sections, active_section, background_pixmap,
                             foreground_pixmap>>]_vars

\* A section was moved with D and is no longer in the collection: it was
\* removed, the two sections left were renumbered.
MovedSectionRemoved ==
    /\ Len(trail) = 1
    /\ trail[1].key = "D"
    /\ trail[1].from # <<>>
    /\ Len(sections) = 2
    /\ \A i \in 1..2 : Triple(sections[i]) = trail[1].from

\* After the removal the last row was clicked while the first was active.
C27_Witness ==
    /\ last_op = "handleActiveSectionUpdate"
    /\ MovedSectionRemoved
    /\ last_arg = 1
    /\ active_section = 2
    /\ sections[2].selected
    /\ ~sections[1].selected
    /\ sections[1].pen = "deselected_pen"

\* After the removal the row of the active section was clicked.
C27_ActiveWitness ==
    /\ last_op = "handleActiveSectionUpdate"
    /\ MovedSectionRemoved
    /\ last_arg = 0
    /\ active_section = 1
    /\ sections[1].selected

\* Two angle nudges in opposite directions were made on the one section.
OppositeNudges ==
    /\ Len(trail) = 2
    /\ {trail[1].key, trail[2].key} = {"Q", "E"}
    /\ active_section # 0

\* The first of the two nudges started at the end of the range that it
\* steps over: E at the maximum, Q at the minimum.
FirstNudgeWraps ==
    \/ trail[1].key = "E" /\ trail[1].from[3] = AngleMaximum
    \/ trail[1].key = "Q" /\ trail[1].from[3] = AngleMinimum

\* C28 as stated: for every whole number of degrees in [-180, 180], E then
\* Q and Q then E restore exactly the original angle value.
C28_InverseExact ==
    (OppositeNudges /\ trail[1].from[3] % angle_step = 0) =>
        sections[active_section].angle_spin_box = trail[1].from[3]

\* C28: E then Q and Q then E restore exactly the original angle value,
\* except when the first nudge starts at the end of the range it steps
\* over; then the result is the other end of the range, the same direction
\* modulo 360 degrees (E, Q at 180 gives -180 and Q, E at -180 gives 180).
C28_InverseModuloTurn ==
    OppositeNudges =>
        LET original == trail[1].from[3]
            restored == sections[active_section].angle_spin_box
        IN IF FirstNudgeWraps
           THEN /\ restored = -original
                /\ restored \in {AngleMinimum, AngleMaximum}
           ELSE restored = original

\* E at 179 reached 180 and Q came back to 179.
C28_Witness ==
    /\ OppositeNudges
    /\ last_op = "Q"
    /\ trail[1].from[3] = AngleMaximum - angle_step
    /\ trail[2].from[3] = AngleMaximum
    /\ sections[active_section].angle_spin_box = AngleMaximum - angle_step

\* E at 180 wrapped to -179 and Q went on to -180.
C28_WrapWitness ==
    /\ OppositeNudges
    /\ last_op = "Q"
    /\ trail[1].from[3] = AngleMaximum
    /\ trail[2].from[3] = AngleMinimum + angle_step
    /\ sections[active_section].angle_spin_box = AngleMinimum

(***************************************************************************)
(* cameraViewers.py.  A viewer object holds a frame viewer and possibly a  *)
(* params viewer; calls lists, in order, the calls the viewer made on      *)
(* them and the messages it emitted on guiMessage.                         *)
(***************************************************************************)
MaxViewerCalls == 2

CameraFunctionalities == {"camera1", "feed1"}
FilmSettings == {"film1", "film2"}
GuiMessages == {"message1", "message2"}

\* A method call self.<target>.<method>(arg), or guiMessage.emit(arg): a
\* call on an attribute that is None raises AttributeError, and nothing
\* runs after an exception.
Call(v, target, method, arg) ==
    IF v.raised # "none" THEN v
    ELSE IF target # "guiMessage" /\ v[target] = "None"
         THEN [v EXCEPT !.raised = "AttributeError"]
         ELSE [v EXCEPT !.calls = Append(@, [to |-> target,
                                             method |-> method,
                                             arg |-> arg])]

\* CameraParamsMixin.__init__, reached through super().__init__(**kwds)
CameraParamsMixin(v) ==
    [v EXCEPT !.camera_name = "", !.params_viewer = "None"]

\* ClassicViewer.__init__
ClassicViewer ==
    LET base == CameraParamsMixin([NoViewer EXCEPT !.class = "ClassicViewer"])
        built == [base EXCEPT !.frame_viewer = "CameraFrameViewer",
                              !.params_viewer = "ParamsViewer"]
    IN Call(built, "frame_viewer", "showRecord", "True")

\* FeedViewer.__init__: no params viewer is created.
FeedViewer ==
    LET base == CameraParamsMixin([NoViewer EXCEPT !.class = "FeedViewer"])
    IN [base EXCEPT !.frame_viewer = "CameraFrameViewer"]

\* DetachedViewer.__init__
DetachedViewer ==
    LET base == CameraParamsMixin([NoViewer EXCEPT !.class = "DetachedViewer"])
    IN [base EXCEPT !.frame_viewer = "CameraFrameViewer",
                    !.params_viewer = "ParamsViewer"]

\* CameraParamsMixin.handleGuiMessage
handleGuiMessage(v, message) ==
    Call(v, "guiMessage", "emit", message)

\* CameraParamsMixin.setCameraFunctionality
setCameraFunctionality(v, camera_functionality) ==
    LET framed == Call(v, "frame_viewer", "setCameraFunctionality",
                       camera_functionality)
    IN IF framed.raised = "none" /\ framed.params_viewer # "None"
       THEN Call(framed, "params_viewer", "setCameraFunctionality",
                 camera_functionality)
       ELSE framed

\* CameraParamsMixin.startFilm: the params viewer gets no argument.
startFilm(v, film_settings) ==
    LET framed == Call(v, "frame_viewer", "startFilm", film_settings)
    IN IF framed.raised = "none" /\ framed.params_viewer # "None"
       THEN Call(framed, "params_viewer", "startFilm", "")
       ELSE framed

\* Mutant: the params viewer is called whether it exists or not.
stopFilmUnguarded(v) ==
    Call(Call(v, "frame_viewer", "stopFilm", ""),
         "params_viewer", "stopFilm", "")

\* CameraParamsMixin.stopFilm
stopFilm(v) ==
    LET framed == Call(v, "frame_viewer", "stopFilm", "")
    IN IF framed.raised = "none" /\ framed.params_viewer # "None"
       THEN Call(framed, "params_viewer", "stopFilm", "")
       ELSE framed

\* The section manager is not involved in the camera viewer's steps.
SectionsUntouched ==
    UNCHANGED <<sections, active_section, background_pixmap, foreground_pixmap,
                raised, failed_renders, last_op, last_arg, nudges, file,
                file_pos, saved, number_x, number_y, emitted, ellipse_rect,
                captured, visible, returned, view_emitted, trail>>

\* One handler of the viewer ran on the arguments arg.
Handled(v, op, arg) ==
    /\ viewer' = [v EXCEPT !.op = op, !.arg = arg,
                           !.handled = viewer.handled + 1]
    /\ SectionsUntouched

\* The handler starts with no exception pending.
Viewer == [viewer EXCEPT !.raised = "none"]

ConstructViewer ==
    /\ viewer.class = "none"
    /\ \E built \in {ClassicViewer, FeedViewer, DetachedViewer} :
         viewer' = [built EXCEPT !.op = "__init__"]
    /\ SectionsUntouched

SetCameraFunctionality ==
    /\ viewer.class # "none"
    /\ viewer.handled < MaxViewerCalls
    /\ \E camera_functionality \in CameraFunctionalities :
         Handled(setCameraFunctionality(Viewer, camera_functionality),
                 "setCameraFunctionality", camera_functionality)

StartFilm ==
    /\ viewer.class # "none"
    /\ viewer.handled < MaxViewerCalls
    /\ \E film_settings \in FilmSettings :
         Handled(startFilm(Viewer, film_settings), "startFilm", film_settings)

StopFilm ==
    /\ viewer.class # "none"
    /\ viewer.handled < MaxViewerCalls
    /\ Handled(stopFilm(Viewer), "stopFilm", "")

HandleGuiMessage ==
    /\ viewer.class # "none"
    /\ viewer.handled < MaxViewerCalls
    /\ \E message \in GuiMessages :
         Handled(handleGuiMessage(Viewer, message), "handleGuiMessage", message)

NextViewer ==
    \/ ConstructViewer
    \/ SetCameraFunctionality
    \/ StartFilm
    \/ StopFilm
    \/ HandleGuiMessage

SpecViewer == Init /\ [][NextViewer]_vars

\* The calls the handler of this step added to the list.
NewCalls == SubSeq(viewer'.calls, Len(viewer.calls) + 1, Len(viewer'.calls))

ForwardedMethods == {"setCameraFunctionality", "startFilm", "stopFilm"}

\* C29: setCameraFunctionality, startFilm and stopFilm call the frame viewer
\* first and then the params viewer if and only if there is one;
\* ClassicViewer and DetachedViewer have one and forward to both, FeedViewer
\* has none, forwards to the frame viewer only and raises nothing;
\* handleGuiMessage emits the received message once, unchanged.
C29_ForwardsInOrder ==
    [][(viewer.class # "none" /\ viewer' # viewer) =>
         LET method == viewer'.op
             has_params == viewer.params_viewer # "None"
             to_frame == [to |-> "frame_viewer", method |-> method,
                          arg |-> viewer'.arg]
             to_params == [to |-> "params_viewer", method |-> method,
                           arg |-> IF method = "startFilm" THEN ""
                                   ELSE viewer'.arg]
         IN /\ viewer'.raised = "none"
            /\ viewer'.class = viewer.class
            /\ viewer'.params_viewer = viewer.params_viewer
            /\ has_params <=> viewer.class \in {"ClassicViewer", "DetachedViewer"}
            /\ method \in ForwardedMethods =>
                 NewCalls = IF has_params THEN <<to_frame, to_params>>
                            ELSE <<to_frame>>
            /\ method = "handleGuiMessage" =>
                 NewCalls = <<[to |-> "guiMessage", method |-> "emit",
                               arg |-> viewer'.arg]>>]_vars

\* A FeedViewer forwarded stopFilm and then startFilm to its frame viewer.
C29_Witness ==
    /\ viewer.class = "FeedViewer"
    /\ viewer.op = "startFilm"
    /\ viewer.raised = "none"
    /\ viewer.calls =
         <<[to |-> "frame_viewer", method |-> "stopFilm", arg |-> ""],
           [to |-> "frame_viewer", method |-> "startFilm", arg |-> "film2"]>>

\* A DetachedViewer republished a message and forwarded a camera
\* functionality to both of its viewers.
C29_BothWitness ==
    /\ viewer.class = "DetachedViewer"
    /\ viewer.op = "setCameraFunctionality"
    /\ viewer.calls =
         <<[to |-> "guiMessage", method |-> "emit", arg |-> "message2"],
           [to |-> "frame_viewer", method |-> "setCameraFunctionality",
            arg |-> "feed1"],
           [to |-> "params_viewer", method |-> "setCameraFunctionality",
            arg |-> "feed1"]>>

====
